---- MODULE Spec2Model ----
(***************************************************************************)
(* ProfDAGNet (caffe2/contrib/prof/prof_dag_net.cc): the profiling layer  *)
(* over the DAG engine.  The model keeps the fields of ProfDAGNet          *)
(* (time_per_op_, time_per_op_type_, runs_), the graph it was built for    *)
(* (operator_nodes_, execution_chains_ of DAGNetBase) and the position of  *)
(* the calls in flight.  Node indices are 0-based as in the code; the      *)
(* vector element of index idx is the sequence element idx + 1.            *)
(*                                                                         *)
(* Timer readings are drawn from Times (whole milliseconds) and the float  *)
(* arithmetic of ProtoMsg / PrintStats is carried out exactly on           *)
(* fractions <<numerator, denominator>>; denominator 0 stands for the      *)
(* non-finite floats (<<0, 0>> is NaN, <<1, 0>> +inf, <<-1, 0>> -inf).      *)
(***************************************************************************)
EXTENDS Integers, Sequences, FiniteSets, TLC

\* Bounds of the model.
MaxNodes == 2
MaxRuns == 3
MaxMismatch == 2
MaxAdded == 1

\* Operator types of the graph, in the iteration order of CaffeMap (std::map).
TypeOrder == <<"Add", "Mul">>
Types == {TypeOrder[k] : k \in 1..Len(TypeOrder)}
\* Timer readings, in milliseconds.
Times == {3, 4, 5, 6}
\* name_ of the net.
name_ == "net"

VARIABLES
    operator_nodes_,     \* DAGNetBase::operator_nodes_: the type of each node
    execution_chains_,   \* DAGNetBase::execution_chains_: the chains the engine runs
    time_per_op_,        \* vector<Stats>, one per node
    time_per_op_type_,   \* CaffeMap<string, Stats>
    runs_,               \* int runs_
    pc,                  \* "idle", "running" (inside DAGNetBase::DoRunAsync), "closed", "crashed"
    time_per_op_run,     \* DoRunAsync's local copy of time_per_op_
    chain,               \* per chain: the RunAt call on it
    success_,            \* the engine's success flag of the run in flight
    ret,                 \* what the last call returned
    validations,         \* history: the number of ValidateOpTensorDevices calls
    log,                 \* the LOG lines of the last step of DoRunAsync
    mismatched,          \* history: the mismatches the last validation found, per node
    report,              \* LOG lines of the destructor
    samples,             \* history: the times accumulated for each node
    calls                \* history: the number of DoRunAsync invocations

vars == <<operator_nodes_, execution_chains_, time_per_op_, time_per_op_type_,
          runs_, pc, time_per_op_run, chain, success_, ret, validations,
          log, mismatched, report, samples, calls>>

----------------------------------------------------------------------------
\* Stats and containers

ZeroStats == [sum |-> 0, sqrsum |-> 0, cnt |-> 0]

\* Variant: one entry too few.
NewTimersShort(n) == [k \in 1..(n - 1) |-> ZeroStats]

\* vector<Stats>(n): n value-initialized entries.
NewTimers(n) == [k \in 1..n |-> ZeroStats]

\* v[idx] of a vector, idx 0-based.
At(v, idx) == v[idx + 1]

\* map[key] of a CaffeMap: a missing key is created value-initialized.
MapGet(m, key) == IF key \in DOMAIN m THEN m[key] ELSE ZeroStats

MapPut(m, key, val) == [x \in (DOMAIN m) \cup {key} |-> IF x = key THEN val ELSE m[x]]

\* Variant: an entry for every known type from the start.
EmptyMapEager == [x \in Types |-> ZeroStats]

\* time_per_op_type_ as constructed: no entries.
EmptyMap == [x \in {} |-> ZeroStats]

NoReturn == [call |-> "none", success |-> FALSE, fatal |-> FALSE, stats |-> <<>>]

----------------------------------------------------------------------------
\* The engine's graph (DAGNetBase)

Max(S) == IF S = {} THEN 0 ELSE CHOOSE x \in S : \A y \in S : y <= x

RECURSIVE SortedSeq(_)
SortedSeq(S) ==
    IF S = {} THEN <<>>
    ELSE LET m == CHOOSE x \in S : \A y \in S : x <= y
         IN  <<m>> \o SortedSeq(S \ {m})

\* The ways to cut nodes 0..n-1 into chains: every node is in exactly one
\* chain and a chain lists its nodes in index (topological) order.
ChainSets(n) ==
    LET Canonical(f) ==
            \A i \in 0..(n - 1) : f[i] <= 1 + Max({f[j] : j \in 0..(i - 1)})
        ChainsOf(f) ==
            [c \in 1..Max({f[i] : i \in 0..(n - 1)}) |->
                SortedSeq({i \in 0..(n - 1) : f[i] = c})]
    IN  {ChainsOf(f) : f \in {g \in [0..(n - 1) -> 1..n] : Canonical(g)}}

\* Nothing is held between the load and the store of a timer entry.
NoReg == [idx |-> -1, ok |-> TRUE, spent |-> 0, stats |-> ZeroStats]

\* The locals of a RunAt call that has not started: bool success = true.
NewCall == [status |-> "pending", success |-> TRUE, trace |-> <<>>, reg |-> NoReg]

NewCalls(chains) == [c \in 1..Len(chains) |-> NewCall]

Settled(call) == call.status \in {"done", "skipped", "thrown"}

----------------------------------------------------------------------------
\* Construction

Init ==
    /\ operator_nodes_ \in UNION {[1..n -> Types] : n \in 0..MaxNodes}
    /\ execution_chains_ \in ChainSets(Len(operator_nodes_))
    /\ time_per_op_ = NewTimers(Len(operator_nodes_))
    /\ time_per_op_type_ = EmptyMap
    /\ runs_ = 0
    /\ pc = "idle"
    /\ time_per_op_run = <<>>
    /\ chain = NewCalls(execution_chains_)
    /\ success_ = TRUE
    /\ ret = NoReturn
    /\ validations = 0
    /\ log = <<>>
    /\ mismatched = <<>>
    /\ report = <<>>
    /\ samples = [k \in 1..Len(operator_nodes_) |-> <<>>]
    /\ calls = 0

----------------------------------------------------------------------------
\* RunAt

\* Variant: the first run is timed too.
SkipTimingNever(r) == r <= 0

\* if (runs_ <= 1): the operator runs untimed.
SkipTiming(r) == r <= 1

\* Variant: success = operator_->Run(), the earlier failures are forgotten.
AndSuccessLast(success, ran) == ran

\* success &= operator_->Run()
AndSuccess(success, ran) == success /\ ran

\* Variant: time_per_op_.size() > idx + 1.
EnforceOpIndexOffByOne(v, idx) == Len(v) > idx + 1

\* CAFFE_ENFORCE(time_per_op_.size() > idx, ...)
EnforceOpIndex(v, idx) == Len(v) > idx

\* Variant: sqrsum += spent.
AccumulateUnsquared(s, spent) ==
    [s EXCEPT !.sum = @ + spent, !.sqrsum = @ + spent]

\* time_per_op_[idx].sum += spent; time_per_op_[idx].sqrsum += spent * spent
Accumulate(s, spent) ==
    [s EXCEPT !.sum = @ + spent, !.sqrsum = @ + spent * spent]

\* Variant: every operator is timed into the first entry.
TimerIndexFirst(idx) == 0

\* The entry an operator is timed into: time_per_op_[idx].
TimerIndex(idx) == idx

\* One iteration of RunAt's loop on chain c up to the read of the timer
\* entry: the operator of the next index runs and returns ok; in a timed run
\* the timer reads spent, the index is checked and the entry is loaded.  The
\* += of lines 168-169 is a load and a store with no lock around them, so
\* other chains may step in between.
RunAtStep(c) ==
    /\ pc = "running"
    /\ chain[c].status \in {"pending", "running"}
    /\ \E ok \in BOOLEAN, spent \in (IF SkipTiming(runs_) THEN {0} ELSE Times) :
        LET call == chain[c]
            idx == execution_chains_[c][Len(call.trace) + 1]
            succ == AndSuccess(call.success, ok)
            tr == Append(call.trace, [idx |-> idx, ok |-> ok, spent |-> spent])
            last == Len(tr) = Len(execution_chains_[c])
            returned == [status |-> IF last THEN "done" ELSE "running",
                         success |-> succ, trace |-> tr, reg |-> NoReg]
        IN  IF SkipTiming(runs_)
            THEN /\ chain' = [chain EXCEPT ![c] = returned]
                 /\ success_' = IF last THEN success_ /\ succ ELSE success_
            ELSE IF ~EnforceOpIndex(time_per_op_, idx)
            THEN /\ chain' = [chain EXCEPT ![c] =
                        [status |-> "thrown", success |-> succ, trace |-> tr,
                         reg |-> NoReg]]
                 /\ success_' = FALSE
            ELSE /\ chain' = [chain EXCEPT ![c] =
                        [status |-> "storing", success |-> succ,
                         trace |-> call.trace,
                         reg |-> [idx |-> idx, ok |-> ok, spent |-> spent,
                                  stats |-> At(time_per_op_, TimerIndex(idx))]]]
                 /\ UNCHANGED success_
    /\ UNCHANGED <<operator_nodes_, execution_chains_, time_per_op_,
                   time_per_op_type_, runs_, pc, time_per_op_run, ret,
                   validations, log, mismatched, report, samples, calls>>

\* The rest of the iteration: the entry is written back with the time added,
\* and RunAt returns after the last operator of the chain.
RunAtStore(c) ==
    /\ pc = "running"
    /\ chain[c].status = "storing"
    /\ LET call == chain[c]
           reg == call.reg
           tr == Append(call.trace,
                        [idx |-> reg.idx, ok |-> reg.ok, spent |-> reg.spent])
           last == Len(tr) = Len(execution_chains_[c])
       IN  /\ time_per_op_' = [time_per_op_ EXCEPT
                  ![TimerIndex(reg.idx) + 1] = Accumulate(reg.stats, reg.spent)]
           /\ samples' = [samples EXCEPT ![reg.idx + 1] = Append(@, reg.spent)]
           /\ chain' = [chain EXCEPT ![c] =
                  [status |-> IF last THEN "done" ELSE "running",
                   success |-> call.success, trace |-> tr, reg |-> NoReg]]
           /\ success_' = IF last THEN success_ /\ call.success ELSE success_
    /\ UNCHANGED <<operator_nodes_, execution_chains_, time_per_op_type_, runs_,
                   pc, time_per_op_run, ret, validations, log, mismatched,
                   report, calls>>

\* The engine drops a chain it has not started once the run has failed.
EngineSkip(c) ==
    /\ pc = "running"
    /\ chain[c].status = "pending"
    /\ ~success_
    /\ chain' = [chain EXCEPT ![c].status = "skipped"]
    /\ UNCHANGED <<operator_nodes_, execution_chains_, time_per_op_,
                   time_per_op_type_, runs_, pc, time_per_op_run, success_, ret,
                   validations, log, mismatched, report, samples, calls>>

----------------------------------------------------------------------------
\* ValidateOpTensorDevices

\* Variant: one line per operator that has mismatches.
MismatchLinesPerOperator(nodes, idx, n) ==
    IF n = 0 THEN <<>>
    ELSE <<[kind |-> "PERFORMANCE WARNING", idx |-> idx,
            type |-> At(nodes, idx), tensor |-> 1]>>

\* The LOG lines of the mismatches of one node: one per mismatching tensor.
RECURSIVE MismatchLines(_, _, _)
MismatchLines(nodes, idx, n) ==
    IF n = 0 THEN <<>>
    ELSE Append(MismatchLines(nodes, idx, n - 1),
                [kind |-> "PERFORMANCE WARNING", idx |-> idx,
                 type |-> At(nodes, idx), tensor |-> n])

\* The outer loop, from node idx on; mism[idx + 1] is the number of
\* mismatches ValidateTensorDevices returns for node idx.
RECURSIVE WarningLines(_, _, _)
WarningLines(nodes, mism, idx) ==
    IF idx >= Len(nodes) THEN <<>>
    ELSE MismatchLines(nodes, idx, mism[idx + 1]) \o WarningLines(nodes, mism, idx + 1)

\* if (!had_mismatches)
NoMismatches(lines) == Len(lines) = 0

ValidateOpTensorDevices(nodes, mism) ==
    LET lines == WarningLines(nodes, mism, 0)
    IN  IF NoMismatches(lines)
        THEN <<[kind |-> "no mismatches", idx |-> -1, type |-> "", tensor |-> 0]>>
        ELSE lines

----------------------------------------------------------------------------
\* DoRunAsync

\* Variant: the second run is treated as a warm-up too.
WarmUpRunTwice(r) == r <= 2

\* if (runs_ <= 1): the first run collects no statistics.
WarmUpRun(r) == r <= 1

\* Variant: time_per_op_.size() <= operator_nodes_.size().
EnforceRunSizesAtMost(v, nodes) == Len(v) <= Len(nodes)

\* The CAFFE_ENFORCE(time_per_op_.size() == operator_nodes_.size(), ...) of
\* DoRunAsync.
EnforceRunSizes(v, nodes) == Len(v) = Len(nodes)

\* CAFFE_ENFORCE(time_per_op_.size() == operator_nodes_.size(), ...)
EnforceSizes(v, nodes) == Len(v) = Len(nodes)

\* Variant: the sum of squares is diffed.
DeltaSqrsum(live, snap, idx, ub) ==
    IF idx < Len(live) /\ idx < Len(snap)
    THEN At(live, idx).sqrsum - At(snap, idx).sqrsum
    ELSE ub

\* time_per_op_[idx].sum - time_per_op_run[idx].sum; reading past the end of
\* a vector is undefined and, when it returns, yields some value ub.
Delta(live, snap, idx, ub) ==
    IF idx < Len(live) /\ idx < Len(snap)
    THEN At(live, idx).sum - At(snap, idx).sum
    ELSE ub

\* The first loop, from node idx on, on the local map time_per_op_type_run.
RECURSIVE TypeRun(_, _, _, _, _, _)
TypeRun(nodes, live, snap, ub, idx, acc) ==
    IF idx >= Len(nodes) THEN acc
    ELSE LET op_type == At(nodes, idx)
             old == IF op_type \in DOMAIN acc THEN acc[op_type] ELSE 0
             new == [x \in (DOMAIN acc) \cup {op_type} |->
                        IF x = op_type THEN old + Delta(live, snap, idx, ub)
                        ELSE acc[x]]
         IN  TypeRun(nodes, live, snap, ub, idx + 1, new)

\* Variant: cnt += 1 once per type of the graph.
CountNodesOncePerType(nodes, idx, m) ==
    LET seen == {At(nodes, i) : i \in idx..(Len(nodes) - 1)}
    IN  [x \in (DOMAIN m) \cup seen |->
            IF x \in seen THEN [MapGet(m, x) EXCEPT !.cnt = @ + 1] ELSE m[x]]

\* The first loop, from node idx on, on time_per_op_type_: cnt += 1.
RECURSIVE CountNodes(_, _, _)
CountNodes(nodes, idx, m) ==
    IF idx >= Len(nodes) THEN m
    ELSE LET op_type == At(nodes, idx)
         IN  CountNodes(nodes, idx + 1,
                 MapPut(m, op_type, [MapGet(m, op_type) EXCEPT !.cnt = @ + 1]))

\* Variant: sum = item.second, the earlier runs are overwritten.
FoldRunAssign(m, run) ==
    [x \in (DOMAIN m) \cup (DOMAIN run) |->
        IF x \in DOMAIN run
        THEN [MapGet(m, x) EXCEPT !.sum = run[x],
                                  !.sqrsum = @ + run[x] * run[x]]
        ELSE m[x]]

\* Variant: sqrsum += item.second.
FoldRunUnsquared(m, run) ==
    [x \in (DOMAIN m) \cup (DOMAIN run) |->
        IF x \in DOMAIN run
        THEN [MapGet(m, x) EXCEPT !.sum = @ + run[x],
                                  !.sqrsum = @ + run[x]]
        ELSE m[x]]

\* The second loop: sum += item.second; sqrsum += item.second * item.second.
FoldRun(m, run) ==
    [x \in (DOMAIN m) \cup (DOMAIN run) |->
        IF x \in DOMAIN run
        THEN [MapGet(m, x) EXCEPT !.sum = @ + run[x],
                                  !.sqrsum = @ + run[x] * run[x]]
        ELSE m[x]]

\* Out-of-range reads happen when the graph has more nodes than timers.
ReadsPastEnd(nodes, live) == Len(nodes) > Len(live)

\* Variant: return true.
RunResultTrue(success) ==
    [call |-> "DoRunAsync", success |-> TRUE, fatal |-> FALSE, stats |-> <<>>]

\* The value DoRunAsync returns.
RunResult(success) ==
    [call |-> "DoRunAsync", success |-> success, fatal |-> FALSE, stats |-> <<>>]

Fatal(call) == [call |-> call, success |-> FALSE, fatal |-> TRUE, stats |-> <<>>]

\* Variant: the warm-up run is not counted.
IncrementRunsAfterFirst(r) == IF r = 0 THEN r ELSE r + 1

\* runs_++
IncrementRuns(r) == r + 1

\* DoRunAsync up to the call of DAGNetBase::DoRunAsync.
DoRunAsyncBegin ==
    /\ pc = "idle"
    /\ runs_ < MaxRuns
    /\ runs_' = IncrementRuns(runs_)
    /\ calls' = calls + 1
    /\ IF ~WarmUpRun(runs_') /\ ~EnforceRunSizes(time_per_op_, operator_nodes_)
       THEN /\ ret' = Fatal("DoRunAsync")
            /\ UNCHANGED <<pc, time_per_op_run, chain, success_>>
       ELSE /\ pc' = "running"
            /\ time_per_op_run' = IF WarmUpRun(runs_') THEN <<>> ELSE time_per_op_
            /\ chain' = NewCalls(execution_chains_)
            /\ success_' = TRUE
            /\ ret' = NoReturn
    /\ log' = <<>>
    /\ mismatched' = <<>>
    /\ UNCHANGED <<operator_nodes_, execution_chains_, time_per_op_,
                   time_per_op_type_, validations, report, samples>>

\* The rest of DoRunAsync when nothing stops it.
DoRunAsyncReturn ==
    /\ IF WarmUpRun(runs_)
       THEN /\ \E mism \in [1..Len(operator_nodes_) -> 0..MaxMismatch] :
                /\ log' = ValidateOpTensorDevices(operator_nodes_, mism)
                /\ mismatched' = mism
            /\ validations' = validations + 1
            /\ UNCHANGED time_per_op_type_
       ELSE /\ \E ub \in (IF ReadsPastEnd(operator_nodes_, time_per_op_)
                          THEN Times ELSE {0}) :
                time_per_op_type_' =
                    FoldRun(CountNodes(operator_nodes_, 0, time_per_op_type_),
                            TypeRun(operator_nodes_, time_per_op_, time_per_op_run,
                                    ub, 0, [x \in {} |-> 0]))
            /\ UNCHANGED <<validations, log, mismatched>>
    /\ ret' = RunResult(success_)
    /\ pc' = "idle"
    /\ time_per_op_run' = <<>>
    /\ chain' = NewCalls(execution_chains_)
    /\ UNCHANGED <<operator_nodes_, execution_chains_, time_per_op_, runs_,
                   success_, report, samples, calls>>

\* DoRunAsync from the return of DAGNetBase::DoRunAsync on.  The reads past
\* the end of time_per_op_ are undefined: they yield some value or stop the
\* process.
DoRunAsyncEnd ==
    /\ pc = "running"
    /\ \A c \in DOMAIN chain : Settled(chain[c])
    /\ \/ DoRunAsyncReturn
       \/ /\ ~WarmUpRun(runs_)
          /\ ReadsPastEnd(operator_nodes_, time_per_op_)
          /\ pc' = "crashed"
          /\ UNCHANGED <<operator_nodes_, execution_chains_, time_per_op_,
                         time_per_op_type_, runs_, time_per_op_run, chain,
                         success_, ret, validations, log, mismatched, report, samples, calls>>

----------------------------------------------------------------------------
\* Float arithmetic, exact

Abs(x) == IF x < 0 THEN -x ELSE x

Sign(x) == IF x < 0 THEN -1 ELSE IF x > 0 THEN 1 ELSE 0

RECURSIVE GCD(_, _)
GCD(a, b) == IF b = 0 THEN a ELSE GCD(b, a % b)

\* n / d in lowest terms; a zero divisor gives NaN or an infinity.
Frac(n, d) ==
    IF d = 0 THEN <<Sign(n), 0>>
    ELSE LET g == GCD(Abs(n), Abs(d))
             s == Sign(d)
         IN  <<(s * n) \div g, (s * d) \div g>>

NaN == <<0, 0>>

IsFinite(a) == a[2] # 0

FMul(a, b) ==
    IF IsFinite(a) /\ IsFinite(b) THEN Frac(a[1] * b[1], a[2] * b[2])
    ELSE <<Sign(a[1]) * Sign(b[1]), 0>>

FSub(a, b) ==
    IF IsFinite(a) /\ IsFinite(b) THEN Frac(a[1] * b[2] - b[1] * a[2], a[2] * b[2])
    ELSE IF IsFinite(a) THEN <<-b[1], 0>>
    ELSE IF IsFinite(b) THEN a
    ELSE IF a[1] # 0 /\ b[1] = -a[1] THEN a
    ELSE NaN

\* std::sqrt(a), kept as the value it is the root of; NaN for a negative or
\* NaN argument.
FSqrt(a) ==
    IF a = NaN \/ a[1] < 0 THEN [nan |-> TRUE, square |-> NaN]
    ELSE [nan |-> FALSE, square |-> a]

----------------------------------------------------------------------------
\* ProtoMsg, GetOperatorStats, GetPerOperatorCost

ProtoMsg(name, stat, runs) ==
    LET mean == Frac(stat.sum, runs - 1)
        stddev == FSqrt(FSub(Frac(stat.sqrsum, runs - 1), FMul(mean, mean)))
    IN  [name |-> name, mean |-> mean, stddev |-> stddev]

\* The keys of a CaffeMap in iteration order.
Keys(m) == SelectSeq(TypeOrder, LAMBDA t : t \in DOMAIN m)

OperatorStats(m, runs) ==
    LET keys == Keys(m)
    IN  [k \in 1..Len(keys) |-> ProtoMsg(keys[k], m[keys[k]], runs)]

\* Variant: the index is left out of the name.
OpOutputNameByType(idx, op_type) == name_ \o "___" \o op_type

\* name_ + "___" + to_string(idx) + "___" + op_type
OpOutputName(idx, op_type) == name_ \o "___" \o ToString(idx) \o "___" \o op_type

\* The loop of GetPerOperatorCost; a read past the end of time_per_op_ cannot
\* happen after the size check.
PerOperatorCost(nodes, v, runs) ==
    [k \in 1..Len(nodes) |->
        ProtoMsg(OpOutputName(k - 1, At(nodes, k - 1)), At(v, k - 1), runs)]

Reply(call, stats) == [call |-> call, success |-> TRUE, fatal |-> FALSE, stats |-> stats]

GetOperatorStats ==
    /\ pc = "idle"
    /\ ret' = Reply("GetOperatorStats", OperatorStats(time_per_op_type_, runs_))
    /\ UNCHANGED <<operator_nodes_, execution_chains_, time_per_op_,
                   time_per_op_type_, runs_, pc, time_per_op_run, chain, success_,
                   validations, log, mismatched, report, samples, calls>>

GetPerOperatorCost ==
    /\ pc = "idle"
    /\ ret' = IF ~EnforceSizes(time_per_op_, operator_nodes_)
              THEN Fatal("GetPerOperatorCost")
              ELSE Reply("GetPerOperatorCost",
                         PerOperatorCost(operator_nodes_, time_per_op_, runs_))
    /\ UNCHANGED <<operator_nodes_, execution_chains_, time_per_op_,
                   time_per_op_type_, runs_, pc, time_per_op_run, chain, success_,
                   validations, log, mismatched, report, samples, calls>>

----------------------------------------------------------------------------
\* PrintStats and the destructor

Line(kind, idx, type, mean, stddev, cnt) ==
    [kind |-> kind, idx |-> idx, type |-> type, mean |-> mean,
     stddev |-> stddev, cnt |-> cnt]

Notice(kind) == Line(kind, -1, "", NaN, FSqrt(NaN), 0)

\* CAFFE_ENFORCE(runs_ > 1, ...)
EnforceRuns(runs) == runs > 1

\* The VLOG(1) line of node idx.
OpLine(nodes, v, idx, measured_runs) ==
    LET mean == Frac(At(v, idx).sum, measured_runs)
        stddev == FSqrt(FSub(Frac(At(v, idx).sqrsum, measured_runs),
                             FMul(mean, mean)))
    IN  Line("Op", idx, At(nodes, idx), mean, stddev, 0)

\* The LOG(INFO) line of an operator type.
TypeLine(m, type, measured_runs) ==
    LET mean == Frac(m[type].sum, measured_runs)
        stddev == FSqrt(FSub(Frac(m[type].sqrsum, measured_runs),
                             FMul(mean, mean)))
    IN  Line("Type", -1, type, mean, stddev, m[type].cnt \div measured_runs)

PrintStats(nodes, v, m, runs) ==
    IF ~EnforceSizes(v, nodes) \/ ~EnforceRuns(runs) THEN <<Notice("fatal")>>
    ELSE LET measured_runs == runs - 1
             keys == Keys(m)
         IN  [k \in 1..Len(nodes) |-> OpLine(nodes, v, k - 1, measured_runs)]
             \o <<Notice("Time per operator type:")>>
             \o [k \in 1..Len(keys) |-> TypeLine(m, keys[k], measured_runs)]

\* Variant: if (runs_ < 1).
InsufficientRunsNone(runs) == runs < 1

\* if (runs_ <= 1) in the destructor
InsufficientRuns(runs) == runs <= 1

Destructor ==
    /\ pc = "idle"
    /\ pc' = "closed"
    /\ report' = IF InsufficientRuns(runs_)
                 THEN <<Notice("Insufficient runs")>>
                 ELSE PrintStats(operator_nodes_, time_per_op_, time_per_op_type_, runs_)
    /\ UNCHANGED <<operator_nodes_, execution_chains_, time_per_op_,
                   time_per_op_type_, runs_, time_per_op_run, chain, success_,
                   ret, validations, log, mismatched, samples, calls>>

----------------------------------------------------------------------------
\* The graph is changed under the net

\* A node is added to operator_nodes_ after construction and joins a chain
\* the engine has not finished (or a chain of its own); time_per_op_ keeps
\* the size the constructor gave it.
MutateGraph ==
    /\ pc \in {"idle", "running"}
    /\ Len(operator_nodes_) < Len(time_per_op_) + MaxAdded
    /\ \E type \in Types :
        operator_nodes_' = Append(operator_nodes_, type)
    /\ \E c \in 1..(Len(execution_chains_) + 1) :
        LET idx == Len(operator_nodes_)
        IN  IF c > Len(execution_chains_)
            THEN /\ execution_chains_' = Append(execution_chains_, <<idx>>)
                 /\ chain' = Append(chain, NewCall)
            ELSE /\ ~Settled(chain[c])
                 /\ execution_chains_' =
                        [execution_chains_ EXCEPT ![c] = Append(@, idx)]
                 /\ UNCHANGED chain
    /\ UNCHANGED <<time_per_op_, time_per_op_type_, runs_, pc, time_per_op_run,
                   success_, ret, validations, log, mismatched, report, samples, calls>>

----------------------------------------------------------------------------
\* Specifications

Next ==
    \/ DoRunAsyncBegin
    \/ \E c \in DOMAIN chain : RunAtStep(c)
    \/ \E c \in DOMAIN chain : RunAtStore(c)
    \/ \E c \in DOMAIN chain : EngineSkip(c)
    \/ DoRunAsyncEnd
    \/ GetOperatorStats
    \/ GetPerOperatorCost
    \/ Destructor

Spec == Init /\ [][Next]_vars

NextMutated == Next \/ MutateGraph

SpecMutated == Init /\ [][NextMutated]_vars

TypeOK ==
    /\ runs_ \in 0..MaxRuns
    /\ pc \in {"idle", "running", "closed", "crashed"}
    /\ DOMAIN time_per_op_type_ \subseteq Types

----------------------------------------------------------------------------
\* Properties

RECURSIVE SumFn(_, _)
SumFn(f, S) ==
    IF S = {} THEN 0
    ELSE LET x == CHOOSE y \in S : TRUE
         IN  f[x] + SumFn(f, S \ {x})

SumSeq(q) == SumFn(q, DOMAIN q)

SumSquares(q) == SumFn([k \in DOMAIN q |-> q[k] * q[k]], DOMAIN q)

NodesOfType(T) == {k \in 1..Len(operator_nodes_) : operator_nodes_[k] = T}

\* The indices of the operators a RunAt call has executed so far, in order.
Executed(call) == [k \in 1..Len(call.trace) |-> call.trace[k].idx]

Stat(T) == MapGet(time_per_op_type_, T)

\* C1: while RunCounter <= 1 RunAt executes every operator of its chain and
\* changes no PerOperatorTimers entry; after the warm-up run measuredRuns = 0,
\* every PerOperatorTimers entry has sum = sqrsum = 0 and PerTypeTimers has
\* received no sum, sqrsum or count.
C1_WarmUpExclusion ==
    /\ runs_ <= 1 =>
          /\ \A k \in DOMAIN time_per_op_ :
                time_per_op_[k].sum = 0 /\ time_per_op_[k].sqrsum = 0
          /\ \A c \in DOMAIN chain :
                chain[c].status = "done" => Executed(chain[c]) = execution_chains_[c]
    /\ (calls = 1 /\ pc # "running") =>
          /\ runs_ - 1 = 0
          /\ \A k \in DOMAIN time_per_op_ :
                time_per_op_[k].sum = 0 /\ time_per_op_[k].sqrsum = 0
          /\ \A T \in Types : Stat(T) = ZeroStats

C1_Witness ==
    /\ calls = 1
    /\ runs_ = 1
    /\ pc = "idle"
    /\ ret.call = "DoRunAsync"
    /\ Len(operator_nodes_) = 2
    /\ \A k \in DOMAIN time_per_op_ : time_per_op_[k] = ZeroStats

\* C2: in a measured run RunAt adds the elapsed time t of each operator it
\* executes, in chain order, to that node's entry as sum += t and
\* sqrsum += t * t, so the entry holds the sum of the node's times and the sum
\* of their squares; after measured runs of 4 and 6 the entry is
\* sum = 10, sqrsum = 52 and the reported mean is 5 and variance 1.
C2_PerNodeAccumulation ==
    /\ \A k \in DOMAIN time_per_op_ :
          /\ time_per_op_[k].sum = SumSeq(samples[k])
          /\ time_per_op_[k].sqrsum = SumSquares(samples[k])
    /\ (pc = "running" /\ runs_ > 1) =>
          \A c \in DOMAIN chain :
              /\ \A k \in 1..Len(chain[c].trace) :
                    /\ chain[c].trace[k].idx = execution_chains_[c][k]
                    /\ LET e == chain[c].trace[k]
                       IN  /\ At(time_per_op_, e.idx).sum =
                                 At(time_per_op_run, e.idx).sum + e.spent
                           /\ At(time_per_op_, e.idx).sqrsum =
                                 At(time_per_op_run, e.idx).sqrsum + e.spent * e.spent
    /\ \A k \in DOMAIN time_per_op_ :
          (samples[k] = <<4, 6>> /\ runs_ = 3) =>
              /\ time_per_op_[k].sum = 10
              /\ time_per_op_[k].sqrsum = 52
              /\ ret.call = "GetPerOperatorCost" =>
                    /\ ret.stats[k].mean = <<5, 1>>
                    /\ ret.stats[k].stddev = [nan |-> FALSE, square |-> <<1, 1>>]

C2_Witness ==
    /\ runs_ = 3
    /\ ret.call = "GetPerOperatorCost"
    /\ Len(operator_nodes_) >= 1
    /\ samples[1] = <<4, 6>>
    /\ ret.stats[1].mean = <<5, 1>>

\* C3: a measured DoRunAsync diffs only the running sum of every node against
\* the snapshot, adds the deltas of the nodes of one type T into runTotal(T)
\* and changes PerTypeTimers[T] by sum += runTotal(T), sqrsum += runTotal(T)^2
\* and count += the number of nodes of type T; two "Add" nodes taking 3 and 5
\* in one measured run add sum 8, sqrsum 64 and count 2.
C3_PerTypeAggregation ==
    /\ [][(pc = "running" /\ pc' = "idle" /\ runs_ > 1) =>
            \A T \in Types :
                LET delta == [k \in NodesOfType(T) |->
                                 time_per_op_[k].sum - time_per_op_run[k].sum]
                    runTotal == SumFn(delta, NodesOfType(T))
                    old == Stat(T)
                    new == MapGet(time_per_op_type_', T)
                IN  /\ new.sum = old.sum + runTotal
                    /\ new.sqrsum = old.sqrsum + runTotal * runTotal
                    /\ new.cnt = old.cnt + Cardinality(NodesOfType(T))]_vars
    /\ []((/\ runs_ = 2
           /\ pc = "idle"
           /\ ret.call = "DoRunAsync"
           /\ operator_nodes_ = <<"Add", "Add">>
           /\ samples = <<(<<3>>), (<<5>>)>>)
          => Stat("Add") = [sum |-> 8, sqrsum |-> 64, cnt |-> 2])

C3_Witness ==
    /\ runs_ = 2
    /\ pc = "idle"
    /\ ret.call = "DoRunAsync"
    /\ operator_nodes_ = <<"Add", "Add">>
    /\ samples = <<(<<3>>), (<<5>>)>>
    /\ "Add" \in DOMAIN time_per_op_type_
    /\ time_per_op_type_["Add"].sqrsum = 64

\* C4: RunAt executes every operator of its chain in order whatever the
\* operators return, in a measured run records the time of every one of them,
\* returns true exactly when every operator returned true, and never raises an
\* operator's failure as an error.
C4_NonShortCircuitAnd ==
    \A c \in DOMAIN chain :
        LET call == chain[c]
        IN  /\ call.status # "thrown"
            /\ call.status \in {"pending", "skipped"} => call.trace = <<>>
            /\ call.status \in {"running", "storing"} =>
                  /\ Len(call.trace) < Len(execution_chains_[c])
                  /\ Executed(call) = SubSeq(execution_chains_[c], 1, Len(call.trace))
            /\ call.status = "done" =>
                  /\ Executed(call) = execution_chains_[c]
                  /\ call.success = (\A k \in DOMAIN call.trace : call.trace[k].ok)
                  /\ runs_ > 1 =>
                        \A k \in DOMAIN call.trace :
                            LET e == call.trace[k]
                            IN  At(time_per_op_, e.idx) =
                                    [sum |-> At(time_per_op_run, e.idx).sum + e.spent,
                                     sqrsum |-> At(time_per_op_run, e.idx).sqrsum
                                                   + e.spent * e.spent,
                                     cnt |-> 0]

C4_Witness ==
    \E c \in DOMAIN chain :
        /\ runs_ = 2
        /\ chain[c].status = "done"
        /\ Len(chain[c].trace) = 2
        /\ ~chain[c].trace[1].ok
        /\ chain[c].trace[2].ok
        /\ ~chain[c].success
        /\ At(time_per_op_, chain[c].trace[2].idx).sum = chain[c].trace[2].spent

\* C5: whenever measuredRuns < 1, GetOperatorStats and GetPerOperatorCost
\* both answer "no data": neither returns a record with a computed mean or
\* stddev and neither divides by a measuredRuns of zero or less.
C5_NoDataWhenInsufficient ==
    (ret.call \in {"GetOperatorStats", "GetPerOperatorCost"} /\ runs_ - 1 < 1)
        => ret.stats = <<>>

\* C6: the destructor emits exactly one "insufficient" notice and computes no
\* mean or stddev when measuredRuns < 1; otherwise PrintStats runs once, its
\* runs_ > 1 guard holds, and it emits one line per node in index order and
\* after them one line per operator type.
C6_TeardownReport ==
    LET ops == SelectSeq(report, LAMBDA l : l.kind = "Op")
        types == SelectSeq(report, LAMBDA l : l.kind = "Type")
    IN  /\ pc # "closed" => report = <<>>
        /\ (pc = "closed" /\ runs_ - 1 < 1) =>
              /\ Len(report) = 1
              /\ report[1].kind = "Insufficient runs"
        /\ (pc = "closed" /\ runs_ - 1 >= 1) =>
              /\ \A k \in DOMAIN report : report[k].kind # "fatal"
              /\ [k \in DOMAIN ops |-> ops[k].idx] =
                    [k \in 1..Len(operator_nodes_) |-> k - 1]
              /\ [k \in DOMAIN types |-> types[k].type] = Keys(time_per_op_type_)
              /\ \A k \in DOMAIN report :
                    /\ report[k].kind = "Op" => k <= Len(operator_nodes_)
                    /\ report[k].kind = "Type" => k > Len(operator_nodes_)
              /\ \A k \in DOMAIN report :
                    report[k].kind \in {"Op", "Type"} => IsFinite(report[k].mean)

C6_Witness ==
    /\ pc = "closed"
    /\ runs_ = 3
    /\ operator_nodes_ = <<"Add", "Mul">>
    /\ Len(report) = 5
    /\ report[5].kind = "Type"
    /\ report[5].type = "Mul"

\* C7: ValidateOpTensorDevices is invoked exactly once over any sequence of
\* runs: after the engine run of the warm-up run has returned, whatever it
\* returned, before any timed run begins, and never in a measured run.
C7_ValidatorOnce ==
    /\ (runs_ = 0 \/ (runs_ = 1 /\ pc = "running")) => validations = 0
    /\ (runs_ > 1 \/ (runs_ = 1 /\ pc # "running")) => validations = 1
    /\ (runs_ <= 1 /\ pc = "running") => log = <<>>
    /\ (runs_ = 1 /\ pc = "idle") => Len(log) >= 1

C7_Witness ==
    /\ runs_ = 3
    /\ pc = "idle"
    /\ ret.call = "DoRunAsync"
    /\ validations = 1

\* C8: RunCounter is incremented exactly once by every DoRunAsync invocation,
\* warm-up and failed runs included, and by nothing else: after k runs
\* RunCounter = k and measuredRuns = k - 1.
C8_RunCounter ==
    /\ runs_ = calls
    /\ (pc = "running" \/ ret.call = "DoRunAsync") => runs_ >= 1

C8_Witness ==
    /\ calls = 3
    /\ runs_ = 3
    /\ pc = "idle"
    /\ ret.call = "DoRunAsync"
    /\ ~ret.success

\* C9: DoRunAsync returns the success flag of the engine run unchanged on the
\* warm-up and on the measured path, and on the measured path it aggregates
\* per type also when the engine run failed.
C9_ReturnsEngineFlag ==
    (ret.call = "DoRunAsync" /\ ~ret.fatal) =>
        /\ ret.success = success_
        /\ runs_ > 1 =>
              \A T \in Types :
                  NodesOfType(T) # {} =>
                      /\ T \in DOMAIN time_per_op_type_
                      /\ time_per_op_type_[T].cnt >= Cardinality(NodesOfType(T))
                      /\ time_per_op_type_[T].sum =
                            SumFn([k \in NodesOfType(T) |-> time_per_op_[k].sum],
                                  NodesOfType(T))

C9_Witness ==
    /\ ret.call = "DoRunAsync"
    /\ runs_ = 2
    /\ ~ret.success
    /\ ~success_
    /\ "Add" \in DOMAIN time_per_op_type_
    /\ time_per_op_type_["Add"].sum > 0

\* A step of the RunAt call on chain c: one more operator has been executed.
IsRunAtStep(c) ==
    /\ pc = "running"
    /\ c \in DOMAIN chain'
    /\ Len(chain'[c].trace) = Len(chain[c].trace) + 1

\* C10 as stated: in a measured run RunAt enforces
\* PerOperatorTimers.length = nodeCount before any accumulation, so a RunAt
\* that works while the lengths differ aborts with a fatal error and changes
\* the sum and sqrsum of no entry.
C10_LengthCheckedFirst ==
    [][\A c \in DOMAIN chain :
          (IsRunAtStep(c) /\ runs_ > 1 /\ Len(time_per_op_) # Len(operator_nodes_))
              => (chain'[c].status = "thrown" /\ time_per_op_' = time_per_op_)]_vars

\* C10 amended: in a measured run RunAt checks, for each index of the chain
\* after executing its operator, only that the index is below
\* PerOperatorTimers.length; an index that fails aborts the chain with a fatal
\* error and nothing is accumulated for it, the indices before it in the chain
\* keep the times already accumulated, and an index in range is accumulated
\* whether or not the lengths differ.
C10_IndexCheckedPerOperator ==
    /\ [][\A c \in DOMAIN chain :
            (IsRunAtStep(c) /\ runs_ > 1) =>
                LET e == chain'[c].trace[Len(chain'[c].trace)]
                IN  IF e.idx < Len(time_per_op_)
                    THEN /\ chain'[c].status # "thrown"
                         /\ time_per_op_' =
                               [time_per_op_ EXCEPT ![e.idx + 1] =
                                   [sum |-> @.sum + e.spent,
                                    sqrsum |-> @.sqrsum + e.spent * e.spent,
                                    cnt |-> @.cnt]]
                    ELSE /\ chain'[c].status = "thrown"
                         /\ time_per_op_' = time_per_op_]_vars
    /\ [](\A c \in DOMAIN chain :
            chain[c].status = "thrown" =>
                /\ chain[c].trace[Len(chain[c].trace)].idx >= Len(time_per_op_)
                /\ \A k \in 1..(Len(chain[c].trace) - 1) :
                      LET e == chain[c].trace[k]
                      IN  /\ e.idx < Len(time_per_op_)
                          /\ At(time_per_op_, e.idx).sum =
                                At(time_per_op_run, e.idx).sum + e.spent)

C10_Witness ==
    \E c \in DOMAIN chain :
        /\ runs_ > 1
        /\ chain[c].status = "thrown"
        /\ Len(chain[c].trace) = 2
        /\ chain[c].trace[1].spent > 0
        /\ At(time_per_op_, chain[c].trace[1].idx).sum =
              At(time_per_op_run, chain[c].trace[1].idx).sum + chain[c].trace[1].spent

\* C14: one ValidateOpTensorDevices call emits one warning per mismatching
\* tensor and no confirmation line when there is a mismatch, exactly one
\* confirmation line and no warning when there is none; it raises no error
\* and changes no timer and not the RunCounter.
C14_ValidatorOutput ==
    (validations = 1 /\ runs_ = 1 /\ pc # "running") =>
        LET warnings == SelectSeq(log, LAMBDA l : l.kind = "PERFORMANCE WARNING")
            confirmations == SelectSeq(log, LAMBDA l : l.kind = "no mismatches")
            total == SumSeq(mismatched)
        IN  /\ Len(mismatched) = Len(operator_nodes_)
            /\ Len(warnings) = total
            /\ Len(confirmations) = (IF total = 0 THEN 1 ELSE 0)
            /\ Len(log) = Len(warnings) + Len(confirmations)
            /\ \A k \in DOMAIN mismatched :
                  Len(SelectSeq(warnings, LAMBDA l : l.idx = k - 1)) = mismatched[k]
            /\ \A k \in DOMAIN warnings :
                  warnings[k].type = At(operator_nodes_, warnings[k].idx)
            /\ ret.call = "DoRunAsync" => ~ret.fatal
            /\ runs_ = calls
            /\ \A k \in DOMAIN time_per_op_ : time_per_op_[k] = ZeroStats
            /\ time_per_op_type_ = EmptyMap

C14_Witness ==
    /\ validations = 1
    /\ runs_ = 1
    /\ pc = "idle"
    /\ ret.call = "DoRunAsync"
    /\ mismatched = <<2, 0>>
    /\ Len(log) = 2
    /\ log[2].kind = "PERFORMANCE WARNING"

\* C11 as stated: every DoRunAsync invocation, warm-up or measured, made
\* while PerOperatorTimers.length differs from nodeCount aborts with a fatal
\* error before the run is delegated to the engine and changes neither
\* PerOperatorTimers nor PerTypeTimers.
C11_EveryRunChecksLength ==
    [][(calls' = calls + 1 /\ Len(time_per_op_) # Len(operator_nodes_)) =>
          /\ ret'.call = "DoRunAsync"
          /\ ret'.fatal
          /\ pc' = "idle"
          /\ time_per_op_' = time_per_op_
          /\ time_per_op_type_' = time_per_op_type_]_vars

\* C11 amended: a measured DoRunAsync invocation (RunCounter > 1 after the
\* increment) made while PerOperatorTimers.length differs from nodeCount
\* aborts with a fatal error before the snapshot and before the run is
\* delegated to the engine, and changes neither PerOperatorTimers nor
\* PerTypeTimers; the warm-up invocation makes no such check and delegates
\* the run whatever the lengths are.
C11_MeasuredRunChecksLength ==
    [][calls' = calls + 1 =>
          /\ time_per_op_' = time_per_op_
          /\ time_per_op_type_' = time_per_op_type_
          /\ IF runs_ + 1 > 1 /\ Len(time_per_op_) # Len(operator_nodes_)
             THEN /\ ret'.call = "DoRunAsync"
                  /\ ret'.fatal
                  /\ pc' = "idle"
                  /\ time_per_op_run' = time_per_op_run
             ELSE /\ ~ret'.fatal
                  /\ pc' = "running"
                  /\ runs_ + 1 > 1 => time_per_op_run' = time_per_op_]_vars

C11_Witness ==
    /\ runs_ = 2
    /\ pc = "idle"
    /\ ret.call = "DoRunAsync"
    /\ ret.fatal
    /\ Len(operator_nodes_) = Len(time_per_op_) + 1
    /\ \A k \in DOMAIN time_per_op_ : time_per_op_[k] = ZeroStats

\* C12: GetPerOperatorCost returns one record per node, in index order, with
\* the mean and stddev of that node's own Stats and a name made of the net
\* name, the index and the operator type; the names of two distinct indices
\* differ, also when the two nodes have the same type.
C12_PerOperatorCostRecords ==
    (ret.call = "GetPerOperatorCost" /\ ~ret.fatal) =>
        /\ Len(ret.stats) = Len(operator_nodes_)
        /\ \A j, k \in DOMAIN ret.stats :
              j # k => ret.stats[j].name # ret.stats[k].name
        /\ \A k \in DOMAIN ret.stats :
              LET msg == ret.stats[k]
                  own == time_per_op_[k]
                  n == runs_ - 1
              IN  /\ msg.name \in {name_ \o "___" \o i \o "___" \o operator_nodes_[k] :
                                     i \in {"0", "1", "2", "3"}}
                  /\ msg.name = name_ \o "___" \o ToString(k - 1) \o "___"
                                   \o operator_nodes_[k]
                  /\ msg.mean[1] * n = own.sum * msg.mean[2]
                  /\ runs_ > 1 =>
                        /\ ~msg.stddev.nan
                        /\ msg.stddev.square[1] * n * n =
                              (n * own.sqrsum - own.sum * own.sum)
                                  * msg.stddev.square[2]

C12_Witness ==
    /\ ret.call = "GetPerOperatorCost"
    /\ runs_ = 3
    /\ operator_nodes_ = <<"Add", "Add">>
    /\ Len(ret.stats) = 2
    /\ ret.stats[1].name = "net___0___Add"
    /\ ret.stats[2].name = "net___1___Add"
    /\ ret.stats[1].mean # ret.stats[2].mean

\* C13: for every node count N >= 0 the constructor makes PerOperatorTimers
\* of length N with every entry zero, and no run, chain execution or query
\* changes its length.
C13_TimersLength ==
    /\ Len(time_per_op_) = Len(operator_nodes_)
    /\ Len(time_per_op_) = Len(samples)
    /\ \A k \in DOMAIN time_per_op_ : time_per_op_[k].cnt = 0
    /\ calls = 0 => \A k \in DOMAIN time_per_op_ : time_per_op_[k] = ZeroStats
    /\ pc = "running" /\ runs_ > 1 => Len(time_per_op_run) = Len(time_per_op_)

C13_Witness ==
    /\ Len(operator_nodes_) = 2
    /\ Len(time_per_op_) = 2
    /\ runs_ = 3
    /\ pc = "idle"
    /\ ret.call = "GetPerOperatorCost"
    /\ time_per_op_[1].sum > 0
    /\ time_per_op_[2].sum > 0

\* The timers a sequential execution leaves: the chains listed in order run
\* one after the other from the snapshot v, each adding the times of its
\* trace to the entries of its own indices.
RECURSIVE ReplayTrace(_, _)
ReplayTrace(v, tr) ==
    IF tr = <<>> THEN v
    ELSE ReplayTrace([v EXCEPT ![tr[1].idx + 1] =
                         [sum |-> @.sum + tr[1].spent,
                          sqrsum |-> @.sqrsum + tr[1].spent * tr[1].spent,
                          cnt |-> @.cnt]],
                     Tail(tr))

RECURSIVE Replay(_, _)
Replay(v, order) ==
    IF order = <<>> THEN v
    ELSE Replay(ReplayTrace(v, chain[order[1]].trace), Tail(order))

\* The orders in which the chains can run one after the other.
Orders ==
    {o \in [DOMAIN chain -> DOMAIN chain] :
        \A i, j \in DOMAIN chain : i # j => o[i] # o[j]}

\* The 1-based positions of the entries chain c owns.
Owned(c) == {execution_chains_[c][k] + 1 : k \in DOMAIN execution_chains_[c]}

\* C15: the chains of a measured run partition the node indices; in every
\* interleaving of the RunAt calls each call changes only the entries of the
\* indices of its own chain, no update is lost, and once the chains have
\* joined PerOperatorTimers is what every sequential execution of the same
\* chains produces, although the load and the store of an entry are separate
\* steps with no lock.
C15_ConcurrentChains ==
    /\ [](/\ \A c, d \in DOMAIN execution_chains_ :
                c # d => Owned(c) \cap Owned(d) = {}
          /\ UNION {Owned(c) : c \in DOMAIN execution_chains_}
                = DOMAIN time_per_op_)
    /\ [][\A c \in DOMAIN chain :
            (pc = "running" /\ pc' = "running" /\ chain'[c] # chain[c]) =>
                /\ \A d \in DOMAIN chain : d # c => chain'[d] = chain[d]
                /\ \A k \in DOMAIN time_per_op_ :
                      time_per_op_'[k] # time_per_op_[k] => k \in Owned(c)]_vars
    /\ []((pc = "running" /\ runs_ > 1) =>
             \A o \in Orders : time_per_op_ = Replay(time_per_op_run, o))

C15_Witness ==
    /\ pc = "running"
    /\ runs_ = 3
    /\ Len(chain) = 2
    /\ chain[1].status = "done"
    /\ chain[2].status = "done"
    /\ chain[1].trace[1].spent = 3
    /\ chain[2].trace[1].spent = 5
    /\ time_per_op_[1].sum = time_per_op_run[1].sum + 3
    /\ time_per_op_[2].sum = time_per_op_run[2].sum + 5
    /\ time_per_op_run[1].sum > 0

\* Two RunAt calls are between the load and the store of their entries at
\* the same time.
C15_WitnessInterleaved ==
    /\ pc = "running"
    /\ runs_ = 3
    /\ Len(chain) = 2
    /\ chain[1].status = "storing"
    /\ chain[2].status = "storing"

\* A measured DoRunAsync has returned.
MeasuredRunCompleted == runs_ > 2 \/ (runs_ = 2 /\ pc # "running")

\* C16: PerTypeTimers has an entry for type T exactly when a measured run has
\* completed and the graph has a node of type T; it is empty after
\* construction and after the warm-up run; the aggregation of a run leaves
\* the sum and sqrsum of a type whose run-total is zero unchanged and adds
\* the run-total and its square for the others.
C16_LazyTypeEntries ==
    /\ [](\A T \in Types :
            T \in DOMAIN time_per_op_type_
                <=> (MeasuredRunCompleted /\ NodesOfType(T) # {}))
    /\ []((runs_ = 0 \/ (runs_ = 1 /\ calls = 1)) => time_per_op_type_ = EmptyMap)
    /\ [][(pc = "running" /\ pc' = "idle" /\ runs_ > 1) =>
            \A T \in DOMAIN time_per_op_type_' :
                LET delta == [k \in NodesOfType(T) |->
                                 time_per_op_[k].sum - time_per_op_run[k].sum]
                    runTotal == SumFn(delta, NodesOfType(T))
                    old == Stat(T)
                    new == time_per_op_type_'[T]
                IN  /\ runTotal = 0 =>
                          new.sum = old.sum /\ new.sqrsum = old.sqrsum
                    /\ runTotal # 0 =>
                          new.sum # old.sum /\ new.sqrsum # old.sqrsum]_vars

C16_Witness ==
    /\ runs_ = 3
    /\ pc = "idle"
    /\ ret.call = "DoRunAsync"
    /\ operator_nodes_ = <<"Add", "Mul">>
    /\ samples[1] = <<4>>
    /\ samples[2] = <<5>>
    /\ DOMAIN time_per_op_type_ = {"Add", "Mul"}
    /\ time_per_op_type_["Add"] = [sum |-> 4, sqrsum |-> 16, cnt |-> 2]
    /\ time_per_op_type_["Mul"] = [sum |-> 5, sqrsum |-> 25, cnt |-> 2]

\* The cumulative time of the nodes of type T.
NodeSum(T) == SumFn([k \in NodesOfType(T) |-> time_per_op_[k].sum], NodesOfType(T))

\* C17: with sequential runs and RunAt called only inside a DoRunAsync whose
\* chains join before the diff, after every completed DoRunAsync and for
\* every operator type T, PerTypeTimers[T].sum is the sum of
\* PerOperatorTimers[i].sum over the nodes i of type T; across any sequence
\* of runs the diff against the snapshot loses no time and counts none twice.
C17_TwoRepresentationsAgree ==
    /\ [](pc # "running" => \A T \in Types : Stat(T).sum = NodeSum(T))
    /\ []((pc = "running" /\ runs_ > 1) =>
            \A T \in Types :
                Stat(T).sum =
                    SumFn([k \in NodesOfType(T) |-> time_per_op_run[k].sum],
                          NodesOfType(T)))
    /\ [][(pc = "running" /\ pc' = "idle") =>
            \A T \in Types :
                MapGet(time_per_op_type_', T).sum = NodeSum(T)]_vars

C17_Witness ==
    /\ runs_ = 3
    /\ pc = "idle"
    /\ ret.call = "DoRunAsync"
    /\ operator_nodes_ = <<"Add", "Add">>
    /\ samples[1] = <<3, 6>>
    /\ samples[2] = <<5>>
    /\ Stat("Add").sum = 14
    /\ time_per_op_[1].sum = 9
    /\ time_per_op_[2].sum = 5

\* C18: after every completed DoRunAsync and for every type T in
\* PerTypeTimers the invocation count is measuredRuns times the number of
\* nodes of type T, whether or not the nodes were executed or the runs
\* succeeded, so count / measuredRuns is the number of nodes of type T.
C18_InvocationCount ==
    (pc # "running" /\ runs_ > 1) =>
        \A T \in DOMAIN time_per_op_type_ :
            LET measured_runs == runs_ - 1
                nodes == Cardinality(NodesOfType(T))
            IN  /\ time_per_op_type_[T].cnt = measured_runs * nodes
                /\ time_per_op_type_[T].cnt \div measured_runs = nodes
                /\ time_per_op_type_[T].cnt % measured_runs = 0
                /\ pc = "closed" =>
                      \A k \in DOMAIN report :
                          (report[k].kind = "Type" /\ report[k].type = T) =>
                              report[k].cnt = nodes

C18_Witness ==
    /\ runs_ = 3
    /\ pc = "closed"
    /\ operator_nodes_ = <<"Add", "Add">>
    /\ samples[2] = <<>>
    /\ Len(samples[1]) = 2
    /\ time_per_op_type_["Add"].cnt = 4
    /\ Len(report) = 4
    /\ report[4].kind = "Type"
    /\ report[4].cnt = 2

====
